---- MODULE Spec2Model ----
(***************************************************************************)
(* A model of cdn-proxy (src/main.go, the program of lines 1-229): the     *)
(* Director that rewrites inbound paths, the ModifyResponse hook that      *)
(* scrubs XML bodies and annotates song responses, and getAudioFilename,   *)
(* the cache-then-database filename lookup.                                *)
(*                                                                         *)
(* Strings are sequences of tokens.  A token is either a whole literal the *)
(* code looks for ("/", ".", "songs", "<Key>", ...) or a piece of text     *)
(* that holds none of them ("h", "1", "x").                                *)
(***************************************************************************)
EXTENDS Integers, Sequences, FiniteSets, TLC

VARIABLES phase, req, out, backendResp, resp, mr, cache, db, clientGone, prev

vars == <<phase, req, out, backendResp, resp, mr, cache, db, clientGone, prev>>

\* Bounds of the model.
MaxTail == 5
MaxQuery == 2
MaxBody == 4

SeqsUpTo(S, n) == UNION { [1..k -> S] : k \in 0..n }

-----------------------------------------------------------------------------
(* Library functions of Go the program calls, computed as Go computes them. *)

HasPrefix(s, p) == Len(s) >= Len(p) /\ SubSeq(s, 1, Len(p)) = p

HasSuffix(s, p) == Len(s) >= Len(p) /\ SubSeq(s, Len(s) - Len(p) + 1, Len(s)) = p

TrimPrefix(s, p) == IF HasPrefix(s, p) THEN SubSeq(s, Len(p) + 1, Len(s)) ELSE s

TrimSuffix(s, p) == IF HasSuffix(s, p) THEN SubSeq(s, 1, Len(s) - Len(p)) ELSE s

\* strings.Contains on a header value: the literal occurs somewhere in it.
Contains(s, lit) == \E i \in 1..Len(s) : s[i] = lit

\* Index of the first tok in s, 0 when there is none.
Index(s, tok) ==
    IF \E i \in 1..Len(s) : s[i] = tok
    THEN CHOOSE i \in 1..Len(s) : s[i] = tok /\ \A j \in 1..(i - 1) : s[j] # tok
    ELSE 0

\* Index of the last tok in s, 0 when there is none.
LastIndex(s, tok) ==
    IF \E i \in 1..Len(s) : s[i] = tok
    THEN CHOOSE i \in 1..Len(s) : s[i] = tok /\ \A j \in (i + 1)..Len(s) : s[j] # tok
    ELSE 0

\* strings.SplitN(s, "/", 2): one part when s has no "/", else the text before
\* the first "/" and everything after it.
SplitN2(s) ==
    IF Index(s, "/") = 0
    THEN <<s>>
    ELSE <<SubSeq(s, 1, Index(s, "/") - 1), SubSeq(s, Index(s, "/") + 1, Len(s))>>

\* filepath.Ext: the suffix of the last path element that starts at its last
\* ".", empty when that element has no ".".
Ext(path) ==
    IF LastIndex(path, ".") > LastIndex(path, "/")
    THEN SubSeq(path, LastIndex(path, "."), Len(path))
    ELSE <<>>

\* url.URL.Query(): the raw query, a sequence of <<key, value>> pairs, parsed
\* into a map from each key to its values in order.
Query(raw) ==
    [k \in {raw[i][1] : i \in 1..Len(raw)} |->
        LET sel == SelectSeq(raw, LAMBDA p : p[1] = k)
        IN  [i \in 1..Len(sel) |-> sel[i][2]]]

\* url.Values.Get: the first value of the key, "" when the key is absent.
Get(q, k) == IF k \in DOMAIN q /\ Len(q[k]) > 0 THEN q[k][1] ELSE ""

\* A wrong url.Values.Del: nothing is deleted.
DelNothing(q, k) == q

\* url.Values.Del: the map without the key.
Del(q, k) == [x \in (DOMAIN q) \ {k} |-> q[x]]

\* The query keys of the model in the order url.Values.Encode sorts them.
KeyOrder == <<"format", "v">>

RECURSIVE EncodeFrom(_, _)
EncodeFrom(q, i) ==
    IF i > Len(KeyOrder) THEN <<>>
    ELSE LET k == KeyOrder[i]
             here == IF k \in DOMAIN q
                     THEN [j \in 1..Len(q[k]) |-> <<k, q[k][j]>>]
                     ELSE <<>>
         IN  here \o EncodeFrom(q, i + 1)

\* url.Values.Encode: the pairs again, sorted by key.
Encode(q) == EncodeFrom(q, 1)

-----------------------------------------------------------------------------
(* Configuration read in main.                                              *)

\* MINIO_BUCKET
minioBucket == "b"

\* The path of minioURL: MINIO_ENDPOINT (an endpoint without a path) + "/" +
\* the bucket.
minioURLPath == <<"/", minioBucket>>

\* The never-cancelled context every call of the program is given.
ctx == "background"

-----------------------------------------------------------------------------
(* The Director.                                                            *)

\* httputil's singleJoiningSlash, which the default director of
\* NewSingleHostReverseProxy joins the target path and the request path with.
singleJoiningSlash(a, b) ==
    LET aslash == HasSuffix(a, <<"/">>)
        bslash == HasPrefix(b, <<"/">>)
    IN  IF aslash /\ bslash THEN a \o Tail(b)
        ELSE IF ~aslash /\ ~bslash THEN a \o <<"/">> \o b
        ELSE a \o b

\* The default director: target scheme and host, joined path, query kept (the
\* target has no query).
originalDirector(r) ==
    [path     |-> singleJoiningSlash(minioURLPath, r.path),
     rawQuery |-> r.rawQuery,
     host     |-> "minio",
     branch   |-> "passthrough",
     userID   |-> <<>>,
     hash     |-> <<>>]

\* The avatars and banners cases of the Director's switch, cls the class.
ImageCase(r, cls) ==
    LET parts == SplitN2(TrimPrefix(r.path, <<"/", cls, "/">>))
    IN  IF Len(parts) = 2
        THEN LET userID == parts[1]
                 hash   == parts[2]
                 q      == Query(r.rawQuery)
                 f      == Get(q, "format")
                 format == IF f = "" THEN "webp" ELSE f
             IN  [path     |-> <<"/", minioBucket, "/", cls, "/">> \o userID
                                   \o <<"/">> \o hash \o <<".", format>>,
                  rawQuery |-> Encode(Del(q, "format")),
                  host     |-> "minio",
                  branch   |-> cls,
                  userID   |-> userID,
                  hash     |-> hash]
        ELSE originalDirector(r)

\* A songs case copied from the avatars case: the format of the query, or
\* "webp", becomes the extension.
SongCaseAsImage(r) == ImageCase(r, "songs")

\* The songs case of the Director's switch.
SongCase(r) ==
    LET parts == SplitN2(TrimPrefix(r.path, <<"/", "songs", "/">>))
    IN  IF Len(parts) = 2
        THEN LET userID      == parts[1]
                 hashWithExt == parts[2]
                 ext         == Ext(hashWithExt)
                 hash        == TrimSuffix(hashWithExt, ext)
             IN  [path     |-> <<"/", minioBucket, "/", "songs", "/">> \o userID
                                   \o <<"/">> \o hash \o ext,
                  rawQuery |-> r.rawQuery,
                  host     |-> "minio",
                  branch   |-> "songs",
                  userID   |-> userID,
                  hash     |-> hash]
        ELSE originalDirector(r)

\* A Director that also wants both parts non-empty before it rewrites.
DirectorNonEmpty(r) ==
    LET d == IF HasPrefix(r.path, <<"/", "avatars", "/">>) THEN ImageCase(r, "avatars")
             ELSE IF HasPrefix(r.path, <<"/", "banners", "/">>) THEN ImageCase(r, "banners")
             ELSE IF HasPrefix(r.path, <<"/", "songs", "/">>) THEN SongCase(r)
             ELSE originalDirector(r)
        parts == SplitN2(SubSeq(r.path, 4, Len(r.path)))
    IN  IF d.branch # "passthrough" /\ parts[1] # <<>> /\ parts[2] # <<>>
        THEN d
        ELSE originalDirector(r)

\* proxy.Director: the rewritten request, with the branch taken and the
\* userID and hash it extracted.
Director(r) ==
    IF HasPrefix(r.path, <<"/", "avatars", "/">>) THEN ImageCase(r, "avatars")
    ELSE IF HasPrefix(r.path, <<"/", "banners", "/">>) THEN ImageCase(r, "banners")
    ELSE IF HasPrefix(r.path, <<"/", "songs", "/">>) THEN SongCase(r)
    ELSE originalDirector(r)

-----------------------------------------------------------------------------
(* getAudioFilename: the Fast Cache (Valkey) and the Durable Store           *)
(* (Postgres).                                                              *)

\* Whether a context is cancelled: the background context never is, a
\* context derived from the request is once the client has gone.
CtxDone(c) == c = "request" /\ clientGone

\* The cache key of a user's profile.
ProfileKey(userID) == <<"user:profile:">> \o userID

\* redisClient.Get(ctx, key).Result(): the value, redis.Nil for a missing
\* key, or another error (the context's, or one of the connection).
RedisGet(c, key, ioErr) ==
    IF CtxDone(c)
    THEN [err |-> "context canceled", val |-> [kind |-> "absent"], ran |-> FALSE]
    ELSE IF ioErr THEN [err |-> "io", val |-> [kind |-> "absent"], ran |-> TRUE]
    ELSE IF key \notin DOMAIN cache \/ cache[key].kind = "absent"
         THEN [err |-> "redis.Nil", val |-> [kind |-> "absent"], ran |-> TRUE]
    ELSE [err |-> "none", val |-> cache[key], ran |-> TRUE]

\* json.Unmarshal into a UserProfile: an error for a value that is no JSON
\* object of the right types, else the fields present, the others zero.
Unmarshal(val) ==
    IF val.kind # "json"
    THEN [err |-> TRUE, AudioHash |-> <<>>, AudioName |-> ""]
    ELSE [err       |-> FALSE,
          AudioHash |-> IF "audio_hash" \in DOMAIN val.fields
                        THEN val.fields["audio_hash"] ELSE <<>>,
          AudioName |-> IF "audio_name" \in DOMAIN val.fields
                        THEN val.fields["audio_name"] ELSE ""]

\* db.QueryRowContext(ctx, SELECT audio_name ... WHERE id = $1 AND
\* audio_hash = $2).Scan: the name of the matching row, or an error (no
\* rows, the context's, or one of the connection).
QueryRow(c, userID, hash, ioErr) ==
    IF CtxDone(c) THEN [err |-> TRUE, name |-> "", ran |-> FALSE]
    ELSE IF ioErr THEN [err |-> TRUE, name |-> "", ran |-> TRUE]
    ELSE IF userID \in DOMAIN db /\ db[userID].present /\ db[userID].audio_hash = hash
         THEN [err |-> FALSE, name |-> db[userID].audio_name, ran |-> TRUE]
    ELSE [err |-> TRUE, name |-> "", ran |-> TRUE]

\* A resolver that trusts the cached name whatever hash it belongs to.
getAudioFilenameAnyHash(c, userID, hash, io) ==
    LET g == RedisGet(c, ProfileKey(userID), io.cacheErr)
        p == Unmarshal(g.val)
        r == QueryRow(c, userID, hash, io.dbErr)
    IN  IF g.err = "none" /\ ~p.err /\ p.AudioName # ""
        THEN [name |-> p.AudioName, err |-> FALSE, cacheRan |-> g.ran,
              dbCalled |-> FALSE, dbRan |-> FALSE]
        ELSE [name |-> r.name, err |-> r.err, cacheRan |-> g.ran,
              dbCalled |-> TRUE, dbRan |-> r.ran]

\* A resolver that gives up on a cache error other than redis.Nil.
getAudioFilenameCacheErr(c, userID, hash, io) ==
    LET g == RedisGet(c, ProfileKey(userID), io.cacheErr)
        p == Unmarshal(g.val)
        r == QueryRow(c, userID, hash, io.dbErr)
    IN  IF g.err = "none" /\ ~p.err /\ p.AudioHash = hash /\ p.AudioName # ""
        THEN [name |-> p.AudioName, err |-> FALSE, cacheRan |-> g.ran,
              dbCalled |-> FALSE, dbRan |-> FALSE]
        ELSE IF g.err \notin {"none", "redis.Nil"}
        THEN [name |-> "", err |-> TRUE, cacheRan |-> g.ran,
              dbCalled |-> FALSE, dbRan |-> FALSE]
        ELSE [name |-> r.name, err |-> r.err, cacheRan |-> g.ran,
              dbCalled |-> TRUE, dbRan |-> r.ran]

\* getAudioFilename(ctx, userID, hash): the name and error it returns, whether
\* it called the Durable Store, and whether the store ran the query.
getAudioFilename(c, userID, hash, io) ==
    LET g == RedisGet(c, ProfileKey(userID), io.cacheErr)
        p == Unmarshal(g.val)
        r == QueryRow(c, userID, hash, io.dbErr)
    IN  IF g.err = "none" /\ ~p.err /\ p.AudioHash = hash /\ p.AudioName # ""
        THEN [name |-> p.AudioName, err |-> FALSE, cacheRan |-> g.ran,
              dbCalled |-> FALSE, dbRan |-> FALSE]
        ELSE [name |-> r.name, err |-> r.err, cacheRan |-> g.ran,
              dbCalled |-> TRUE, dbRan |-> r.ran]

-----------------------------------------------------------------------------
(* ModifyResponse.                                                          *)

\* The number of bytes of a token; a token that is no tag is one byte.
TokenBytes(t) ==
    CASE t = "<BucketName>"  -> 12
      [] t = "</BucketName>" -> 13
      [] t = "<Resource>"    -> 10
      [] t = "</Resource>"   -> 11
      [] t = "<Key>"         -> 5
      [] t = "</Key>"        -> 6
      [] OTHER               -> 1

RECURSIVE ByteLen(_)
\* len(body)
ByteLen(s) == IF s = <<>> THEN 0 ELSE TokenBytes(Head(s)) + ByteLen(Tail(s))

RECURSIVE MatchEnd(_, _, _)
\* Where the shortest match of .*?</tag> that starts at j ends: at the first
\* close tag from j on, unless a line break comes before it ("." matches no
\* line break); 0 when there is no match.
MatchEnd(s, j, close) ==
    IF j > Len(s) THEN 0
    ELSE IF s[j] = close THEN j
    ELSE IF s[j] = "\n" THEN 0
    ELSE MatchEnd(s, j + 1, close)

RECURSIVE ReplaceAllFrom(_, _, _, _)
ReplaceAllFrom(s, i, open, close) ==
    IF i > Len(s) THEN <<>>
    ELSE IF s[i] = open /\ MatchEnd(s, i + 1, close) > 0
    THEN ReplaceAllFrom(s, MatchEnd(s, i + 1, close) + 1, open, close)
    ELSE <<s[i]>> \o ReplaceAllFrom(s, i + 1, open, close)

\* regexp.MustCompile(`<tag>.*?</tag>`).ReplaceAll(s, []byte{}): every
\* leftmost, shortest, non-overlapping match deleted.
ReplaceAll(s, open, close) == ReplaceAllFrom(s, 1, open, close)

\* The three replacements of ModifyResponse, in the order of the code.
cleanBody(origBody) ==
    ReplaceAll(ReplaceAll(ReplaceAll(origBody, "<BucketName>", "</BucketName>"),
                          "<Resource>", "</Resource>"),
               "<Key>", "</Key>")

\* A scrub that leaves the length of the original body in place.
ScrubStaleLength(rs) ==
    [rs EXCEPT !.body = cleanBody(rs.body)]

\* The application/xml branch of ModifyResponse: body, ContentLength field
\* and Content-Length header replaced.
Scrub(rs) ==
    [rs EXCEPT !.body = cleanBody(rs.body),
               !.contentLength = ByteLen(cleanBody(rs.body)),
               !.hdrContentLength = ByteLen(cleanBody(rs.body))]

\* What a run of ModifyResponse without a resolver call records.
NoCall == [called |-> FALSE, userID |-> <<>>, hash |-> <<>>, name |-> "",
           err |-> FALSE, cacheRan |-> FALSE, dbCalled |-> FALSE, dbRan |-> FALSE]

\* A song branch that reports a failed resolution to its caller.
SongBranchFails(rs, path, io) ==
    LET pre   == <<"/", minioBucket, "/", "songs", "/">>
        parts == SplitN2(TrimPrefix(path, pre))
        ext    == Ext(parts[2])
        hash   == TrimSuffix(parts[2], ext)
        a      == getAudioFilename(ctx, parts[1], hash, io)
    IN  IF HasPrefix(path, pre) /\ Len(parts) = 2
        THEN [resp |-> IF ~a.err /\ a.name # ""
                       THEN [rs EXCEPT !.contentDisposition = <<"inline; filename=", a.name>>]
                       ELSE rs,
              err  |-> a.err,
              call |-> [called |-> TRUE, userID |-> parts[1], hash |-> hash,
                        name |-> a.name, err |-> a.err, cacheRan |-> a.cacheRan,
                        dbCalled |-> a.dbCalled, dbRan |-> a.dbRan]]
        ELSE [resp |-> rs, err |-> FALSE, call |-> NoCall]

\* A song branch that takes the whole last part, extension included, as the
\* hash.
SongBranchKeepsExt(rs, path, io) ==
    LET pre   == <<"/", minioBucket, "/", "songs", "/">>
        parts == SplitN2(TrimPrefix(path, pre))
        hash   == parts[2]
        a      == getAudioFilename(ctx, parts[1], hash, io)
    IN  IF HasPrefix(path, pre) /\ Len(parts) = 2
        THEN [resp |-> IF ~a.err /\ a.name # ""
                       THEN [rs EXCEPT !.contentDisposition = <<"inline; filename=", a.name>>]
                       ELSE rs,
              err  |-> FALSE,
              call |-> [called |-> TRUE, userID |-> parts[1], hash |-> hash,
                        name |-> a.name, err |-> a.err, cacheRan |-> a.cacheRan,
                        dbCalled |-> a.dbCalled, dbRan |-> a.dbRan]]
        ELSE [resp |-> rs, err |-> FALSE, call |-> NoCall]

\* The songs branch of ModifyResponse on the path of the rewritten request.
SongBranch(rs, path, io) ==
    LET pre   == <<"/", minioBucket, "/", "songs", "/">>
        parts == SplitN2(TrimPrefix(path, pre))
        ext    == Ext(parts[2])
        hash   == TrimSuffix(parts[2], ext)
        a      == getAudioFilename(ctx, parts[1], hash, io)
    IN  IF HasPrefix(path, pre) /\ Len(parts) = 2
        THEN [resp |-> IF ~a.err /\ a.name # ""
                       THEN [rs EXCEPT !.contentDisposition = <<"inline; filename=", a.name>>]
                       ELSE rs,
              err  |-> FALSE,
              call |-> [called |-> TRUE, userID |-> parts[1], hash |-> hash,
                        name |-> a.name, err |-> a.err, cacheRan |-> a.cacheRan,
                        dbCalled |-> a.dbCalled, dbRan |-> a.dbRan]]
        ELSE [resp |-> rs, err |-> FALSE, call |-> NoCall]

\* proxy.ModifyResponse: the response it leaves, the error it returns and
\* the resolver call it made.
ModifyResponse(rs, path, io) ==
    IF Contains(rs.contentType, "application/xml")
    THEN IF io.readErr
         THEN [resp |-> rs, err |-> TRUE, call |-> NoCall]
         ELSE SongBranch(Scrub(rs), path, io)
    ELSE SongBranch(rs, path, io)

-----------------------------------------------------------------------------
(* The inputs of the model.                                                 *)

\* Request paths of the routing specification: a head and up to MaxTail more
\* tokens.
RouteHeads ==
    {<<"/", c, "/">> : c \in {"avatars", "banners", "songs", "x"}}
        \cup {<<"/", "songs">>, <<"/", minioBucket, "/", "songs", "/">>}

RoutePaths == {h \o t : h \in RouteHeads, t \in SeqsUpTo({"/", ".", "h"}, MaxTail)}

\* Raw queries: up to MaxQuery pairs.
RouteQueries ==
    SeqsUpTo({<<"format", "">>, <<"format", "png">>, <<"v", "1">>}, MaxQuery)

\* Request paths of the pipeline specification.
SongPaths ==
    {<<"/", "songs", "/", "1", "/", "h", ".", "mp3">>,
     <<"/", "songs", "/", "1", "/", "g">>,
     <<"/", "songs", "/", "2", "/", "h">>,
     <<"/", "songs", "/", "1", "/", ".", "mp3">>,
     <<"/", "songs", "/", "1">>,
     <<"/", "avatars", "/", "1", "/", "h">>}

\* Request paths of the scrubbing specification.
XmlPaths == {<<"/", "songs", "/", "1", "/", "h">>}

\* A backend response as it reaches ModifyResponse: the length header and
\* field are those of the body.
Response(st, ct, cd, b) ==
    [status |-> st, contentType |-> ct, contentDisposition |-> cd, body |-> b,
     contentLength |-> ByteLen(b), hdrContentLength |-> ByteLen(b)]

SongResponses ==
    {Response(200, <<"audio/mpeg">>, <<>>, <<"x", "x">>),
     Response(200, <<"audio/mpeg">>, <<"attachment">>, <<"x">>),
     Response(404, <<"application/xml">>, <<>>, <<"x", "<Key>", "h", "</Key>">>),
     Response(404, <<"text/plain">>, <<>>, <<"<Key>", "h", "</Key>">>)}

RouteResponses == {Response(200, <<"audio/mpeg">>, <<>>, <<"x">>)}

BodyTokens ==
    {"<BucketName>", "</BucketName>", "<Resource>", "</Resource>",
     "<Key>", "</Key>", "x", "\n"}

XmlResponses ==
    {Response(404, <<"application/xml", "; charset=utf-8">>, <<>>, b) :
        b \in SeqsUpTo(BodyTokens, MaxBody)}
        \cup {Response(404, <<"text/html">>, <<>>, b) : b \in SeqsUpTo(BodyTokens, 1)}

\* What can go wrong inside one run of ModifyResponse.
IOs == [readErr : BOOLEAN, cacheErr : BOOLEAN, dbErr : BOOLEAN]

NoIO == [readErr |-> FALSE, cacheErr |-> FALSE, dbErr |-> FALSE]

KnownUsers == {<<"1">>}

Hashes == {<<"h">>, <<"g">>}

\* Values the writer of the profiles may leave under user:profile:<id>: no
\* entry, a value that is no profile, or a JSON object with or without the
\* two fields the resolver reads.
JsonValue(hs, ns) ==
    [kind |-> "json",
     fields |-> [k \in {x \in {"audio_hash"} : hs # {}}
                         \cup {x \in {"audio_name"} : ns # {}} |->
                    IF k = "audio_hash" THEN CHOOSE h \in hs : TRUE
                                        ELSE CHOOSE n \in ns : TRUE]]

ProfileValues ==
    {[kind |-> "absent"], [kind |-> "garbage"]}
        \cup {JsonValue(hs, ns) : hs \in {{}} \cup {{h} : h \in Hashes},
                                  ns \in {{}, {""}, {"A.mp3"}}}

NoRow == [present |-> FALSE, audio_hash |-> <<>>, audio_name |-> ""]

DbRows ==
    {NoRow} \cup [present : {TRUE}, audio_hash : Hashes, audio_name : {"", "A.mp3", "B.mp3"}]

NoResp == Response(0, <<>>, <<>>, <<>>)

NoMr == [err |-> FALSE, call |-> NoCall, io |-> NoIO]

NoPrev == [valid |-> FALSE, userID |-> <<>>, hash |-> <<>>, name |-> ""]

-----------------------------------------------------------------------------
(* The state machine: one request at a time through Director, the backend   *)
(* and ModifyResponse, with the stores' writers and the client around it.   *)

Init ==
    /\ phase = "idle"
    /\ req = [path |-> <<>>, rawQuery |-> <<>>]
    /\ out = originalDirector([path |-> <<>>, rawQuery |-> <<>>])
    /\ backendResp = NoResp
    /\ resp = NoResp
    /\ mr = NoMr
    /\ cache = [k \in {ProfileKey(u) : u \in KnownUsers} |-> [kind |-> "absent"]]
    /\ db = [u \in KnownUsers |->
                [present |-> TRUE, audio_hash |-> <<"h">>, audio_name |-> "A.mp3"]]
    /\ clientGone = FALSE
    /\ prev = NoPrev

\* A request arrives and the Director rewrites it.
Receive(P, Q) ==
    /\ phase = "idle"
    /\ \E p \in P, q \in Q :
          /\ req' = [path |-> p, rawQuery |-> q]
          /\ out' = Director([path |-> p, rawQuery |-> q])
    /\ phase' = "forwarded"
    /\ resp' = NoResp
    /\ mr' = NoMr
    /\ clientGone' = FALSE
    /\ UNCHANGED <<backendResp, cache, db, prev>>

\* The backend answers the forwarded request.
BackendRespond(R) ==
    /\ phase = "forwarded"
    /\ ~clientGone
    /\ \E r \in R : resp' = r /\ backendResp' = r
    /\ phase' = "responded"
    /\ UNCHANGED <<req, out, mr, cache, db, clientGone, prev>>

\* The client goes away while its request is in flight.
ClientDisconnect ==
    /\ phase \in {"forwarded", "responded"}
    /\ ~clientGone
    /\ clientGone' = TRUE
    /\ UNCHANGED <<phase, req, out, backendResp, resp, mr, cache, db, prev>>

\* The backend call of a request whose client has gone fails: the proxy
\* answers without calling ModifyResponse.
TransportError ==
    /\ phase = "forwarded"
    /\ clientGone
    /\ phase' = "idle"
    /\ req' = [path |-> <<>>, rawQuery |-> <<>>]
    /\ out' = originalDirector([path |-> <<>>, rawQuery |-> <<>>])
    /\ clientGone' = FALSE
    /\ UNCHANGED <<backendResp, resp, mr, cache, db, prev>>

\* ModifyResponse runs on the backend's response.
ModifyResponseStep(I) ==
    /\ phase = "responded"
    /\ \E io \in I :
          LET m == ModifyResponse(resp, out.path, io)
          IN  /\ resp' = m.resp
              /\ mr' = [err |-> m.err, call |-> m.call, io |-> io]
    /\ phase' = "done"
    /\ UNCHANGED <<req, out, backendResp, cache, db, clientGone, prev>>

\* The response goes to the client and the request is over.  A resolution
\* the Durable Store answered is remembered in prev, for the next request to
\* be compared with.
Deliver ==
    /\ phase = "done"
    /\ phase' = "idle"
    /\ req' = [path |-> <<>>, rawQuery |-> <<>>]
    /\ out' = originalDirector([path |-> <<>>, rawQuery |-> <<>>])
    /\ backendResp' = NoResp
    /\ resp' = NoResp
    /\ mr' = NoMr
    /\ clientGone' = FALSE
    /\ prev' = IF mr.call.called
               THEN IF ~mr.call.err /\ mr.call.dbRan
                    THEN [valid |-> TRUE, userID |-> mr.call.userID,
                          hash |-> mr.call.hash, name |-> mr.call.name]
                    ELSE NoPrev
               ELSE prev
    /\ UNCHANGED <<cache, db>>

\* The owner of the profiles writes, or the cache expires, a profile entry.
\* The stores are read inside ModifyResponse only, so a change is placed
\* before the run that sees it.
CacheSet ==
    /\ phase # "done"
    /\ \E u \in KnownUsers, v \in ProfileValues :
          /\ cache[ProfileKey(u)] # v
          /\ cache' = [cache EXCEPT ![ProfileKey(u)] = v]
    /\ prev' = NoPrev
    /\ UNCHANGED <<phase, req, out, backendResp, resp, mr, db, clientGone>>

\* The owner of the profiles writes or deletes a row of user_profiles.
DbWrite ==
    /\ phase # "done"
    /\ \E u \in KnownUsers, r \in DbRows :
          /\ db[u] # r
          /\ db' = [db EXCEPT ![u] = r]
    /\ prev' = NoPrev
    /\ UNCHANGED <<phase, req, out, backendResp, resp, mr, cache, clientGone>>

\* The pipeline with the resolver, its stores and the client.
Next ==
    \/ Receive(SongPaths, {<<>>})
    \/ BackendRespond(SongResponses)
    \/ ClientDisconnect
    \/ TransportError
    \/ ModifyResponseStep(IOs)
    \/ Deliver
    \/ CacheSet
    \/ DbWrite

Spec == Init /\ [][Next]_vars

\* Routing: every path and query of the bounds, a fixed response.
NextRoute ==
    \/ Receive(RoutePaths, RouteQueries)
    \/ BackendRespond(RouteResponses)
    \/ ModifyResponseStep({NoIO})
    \/ Deliver

SpecRoute == Init /\ [][NextRoute]_vars

\* Scrubbing: every body of the bounds.
NextXml ==
    \/ Receive(XmlPaths, {<<>>})
    \/ BackendRespond(XmlResponses)
    \/ ModifyResponseStep({io \in IOs : ~io.cacheErr /\ ~io.dbErr})
    \/ Deliver

SpecXml == Init /\ [][NextXml]_vars

-----------------------------------------------------------------------------
(* The claims about the Director, checked under SpecRoute.                  *)

\* The part of the inbound path after its first three tokens (a prefix such
\* as /avatars/).
Remainder == SubSeq(req.path, 4, Len(req.path))

\* The inbound path is under the prefix of class cls.
Under(cls) == Len(req.path) >= 3 /\ SubSeq(req.path, 1, 3) = <<"/", cls, "/">>

\* The remainder is userID "/" hash with the "/" at position i of it, the
\* userID holding no "/".
SplitsAt(i) ==
    /\ i \in 1..Len(Remainder)
    /\ Remainder[i] = "/"
    /\ \A j \in 1..(i - 1) : Remainder[j] # "/"

UserPart(i) == SubSeq(Remainder, 1, i - 1)

HashPart(i) == SubSeq(Remainder, i + 1, Len(Remainder))

\* The value of the first format parameter of the inbound query, "webp" when
\* there is none or it is empty.
WantedFormat ==
    LET fs == SelectSeq(req.rawQuery, LAMBDA p : p[1] = "format")
    IN  IF fs = <<>> \/ fs[1][2] = "" THEN "webp" ELSE fs[1][2]

NoFormatForwarded == \A i \in 1..Len(out.rawQuery) : out.rawQuery[i][1] # "format"

\* C1: a request /avatars/{userID}/{hash} or /banners/{userID}/{hash} is
\* rewritten to /{bucket}/{class}/{userID}/{hash}.{f}, f the format parameter
\* or "webp" when it is absent or empty, and no format parameter is forwarded.
C1_ImageRewrite ==
    phase # "idle" =>
        \A cls \in {"avatars", "banners"} : \A i \in 1..Len(Remainder) :
            (Under(cls) /\ SplitsAt(i)) =>
                /\ out.path = <<"/", minioBucket, "/", cls, "/">> \o UserPart(i)
                                 \o <<"/">> \o HashPart(i) \o <<".", WantedFormat>>
                /\ NoFormatForwarded

\* C1 happens: /avatars/h/h?format=png&v=1 is forwarded as
\* /b/avatars/h/h.png?v=1.
C1_Witness ==
    /\ phase = "forwarded"
    /\ req.path = <<"/", "avatars", "/", "h", "/", "h">>
    /\ req.rawQuery = <<<<"format", "png">>, <<"v", "1">>>>
    /\ out.path = <<"/", minioBucket, "/", "avatars", "/", "h", "/", "h", ".", "png">>
    /\ out.rawQuery = <<<<"v", "1">>>>

\* The passthrough rewrite: the bucket put before the unmodified path, the
\* query as it came.
PassedThrough ==
    /\ out.path = <<"/", minioBucket>> \o req.path
    /\ out.rawQuery = req.rawQuery

\* The split of the remainder yields two non-empty parts.
TwoNonEmptyParts ==
    \E i \in 1..Len(Remainder) : SplitsAt(i) /\ UserPart(i) # <<>> /\ HashPart(i) # <<>>

\* C2 as written: under a recognized prefix, a remainder that does not split
\* into two non-empty parts is passed through.
C2_AsWritten ==
    phase # "idle" =>
        \A cls \in {"avatars", "banners", "songs"} :
            (Under(cls) /\ ~TwoNonEmptyParts) => PassedThrough

\* C2 as amended: under a recognized prefix, a remainder without "/" is
\* passed through; an avatar or banner remainder with a "/" is rewritten with
\* the format extension even when its userID or hash is empty.
C2_NoSlashPassthrough ==
    phase # "idle" =>
        /\ \A cls \in {"avatars", "banners", "songs"} :
              (Under(cls) /\ ~(\E i \in 1..Len(Remainder) : SplitsAt(i))) => PassedThrough
        /\ \A cls \in {"avatars", "banners"} : \A i \in 1..Len(Remainder) :
              (Under(cls) /\ SplitsAt(i) /\ (UserPart(i) = <<>> \/ HashPart(i) = <<>>)) =>
                  /\ out.path = <<"/", minioBucket>> \o req.path \o <<".", WantedFormat>>
                  /\ NoFormatForwarded

\* C2 happens: /avatars/h?format=png has no second part and is forwarded as
\* /b/avatars/h?format=png.
C2_Witness ==
    /\ phase = "forwarded"
    /\ req.path = <<"/", "avatars", "/", "h">>
    /\ req.rawQuery = <<<<"format", "png">>>>
    /\ out.path = <<"/", minioBucket, "/", "avatars", "/", "h">>
    /\ out.rawQuery = req.rawQuery

\* C8: a request /songs/{userID}/{hashWithExt} is rewritten to
\* /{bucket}/songs/{userID}/{hashWithExt}, whatever the query holds.
C8_SongRewrite ==
    phase # "idle" =>
        \A i \in 1..Len(Remainder) :
            (Under("songs") /\ SplitsAt(i)) =>
                out.path = <<"/", minioBucket, "/", "songs", "/">> \o UserPart(i)
                              \o <<"/">> \o HashPart(i)

\* C8 happens: /songs/h/h.h?format=png is forwarded as /b/songs/h/h.h.
C8_Witness ==
    /\ phase = "forwarded"
    /\ req.path = <<"/", "songs", "/", "h", "/", "h", ".", "h">>
    /\ req.rawQuery = <<<<"format", "png">>>>
    /\ out.path = <<"/", minioBucket, "/", "songs", "/", "h", "/", "h", ".", "h">>

\* The hash named in a song URL: the last part without the extension of its
\* last path element.
UrlHash(i) ==
    LET hwe  == HashPart(i)
        dot  == LastIndex(hwe, ".")
    IN  IF dot > LastIndex(hwe, "/") THEN SubSeq(hwe, 1, dot - 1) ELSE hwe

\* C10: for a song request the Director recognizes, ModifyResponse calls the
\* resolver with the userID and hash of the client's URL, which are those the
\* Director extracted; a request passed through never reaches the resolver.
C10_SamePair ==
    phase = "done" =>
        /\ \A i \in 1..Len(Remainder) :
              (Under("songs") /\ SplitsAt(i)) =>
                  /\ mr.call.called
                  /\ mr.call.userID = UserPart(i) /\ mr.call.userID = out.userID
                  /\ mr.call.hash = UrlHash(i) /\ mr.call.hash = out.hash
        /\ out.branch = "passthrough" => ~mr.call.called

\* C10 happens: the response to /songs/h/h.h is annotated for (h, h).
C10_Witness ==
    /\ phase = "done"
    /\ req.path = <<"/", "songs", "/", "h", "/", "h", ".", "h">>
    /\ mr.call.called
    /\ mr.call.userID = <<"h">>
    /\ mr.call.hash = <<"h">>

-----------------------------------------------------------------------------
(* The claims about getAudioFilename and the song branch, checked under     *)
(* Spec.  While phase is "done" the stores are as the run of ModifyResponse *)
(* on record saw them.                                                      *)

\* The entry under user:profile:<userID> of the call on record.
CachedEntry ==
    IF ProfileKey(mr.call.userID) \in DOMAIN cache
    THEN cache[ProfileKey(mr.call.userID)]
    ELSE [kind |-> "absent"]

\* A field of a cached JSON object, the zero value when the object lacks it.
FieldOr(v, k, zero) == IF k \in DOMAIN v.fields THEN v.fields[k] ELSE zero

\* The cache read of the call on record gave a usable profile: it succeeded,
\* the entry is a profile whose audioHash is the requested hash and whose
\* audioName is not empty.
CacheUsable ==
    /\ ~mr.io.cacheErr
    /\ CachedEntry.kind = "json"
    /\ FieldOr(CachedEntry, "audio_hash", <<>>) = mr.call.hash
    /\ FieldOr(CachedEntry, "audio_name", "") # ""

\* The Durable Store answers the call on record with a row.
DbHasRow ==
    /\ ~mr.io.dbErr
    /\ mr.call.userID \in DOMAIN db
    /\ db[mr.call.userID].present
    /\ db[mr.call.userID].audio_hash = mr.call.hash

\* What the Durable Store alone decides for the call on record.
DecidedByDb ==
    /\ mr.call.dbCalled
    /\ mr.call.err = ~DbHasRow
    /\ mr.call.name = IF DbHasRow THEN db[mr.call.userID].audio_name ELSE ""

\* C3 as written: a resolution that follows one the Durable Store answered
\* for the same (userID, hash), the stores unchanged in between, returns the
\* same name without a Durable Store query.
C3_SecondFromCache ==
    (/\ phase = "done"
     /\ mr.call.called
     /\ mr.io = NoIO
     /\ prev.valid
     /\ prev.userID = mr.call.userID
     /\ prev.hash = mr.call.hash)
        => (~mr.call.dbCalled /\ ~mr.call.err /\ mr.call.name = prev.name)

\* C4: the resolver returns the cached name, without a Durable Store query,
\* exactly when the cache gave a usable profile; in every other case it
\* queries the Durable Store, whose answer is what it returns.
C4_CacheHitExactly ==
    (phase = "done" /\ mr.call.called) =>
        /\ CacheUsable =>
              /\ ~mr.call.dbCalled
              /\ ~mr.call.err
              /\ mr.call.name = CachedEntry.fields["audio_name"]
        /\ ~CacheUsable => DecidedByDb

\* C4 happens: a cached profile of the requested hash gives its name while
\* the Durable Store holds another name for the pair.
C4_Witness ==
    /\ phase = "done"
    /\ mr.call.called
    /\ CacheUsable
    /\ DbHasRow
    /\ db[mr.call.userID].audio_name = "B.mp3"
    /\ mr.call.name = "A.mp3"
    /\ ~mr.call.dbCalled

\* C5 as written: the cache read and the Durable Store query of a request
\* whose client has gone are cancelled.
C5_CancelledWithRequest ==
    (phase = "done" /\ clientGone /\ mr.call.called) =>
        (~mr.call.cacheRan /\ ~mr.call.dbRan)

\* C7: when neither the cache nor the Durable Store gives a name for a song
\* response, ModifyResponse returns no error and sets no Content-Disposition;
\* a response that is not XML is left as the backend sent it.
C7_FailureIsSilent ==
    (phase = "done" /\ mr.call.called /\ ~CacheUsable /\ ~DbHasRow) =>
        /\ ~mr.err
        /\ resp.contentDisposition = backendResp.contentDisposition
        /\ resp.status = backendResp.status
        /\ resp.contentType = backendResp.contentType
        /\ ~Contains(backendResp.contentType, "application/xml") => resp = backendResp

\* C7 happens: the Durable Store query of a song response fails after a
\* cache miss.
C7_Witness ==
    /\ phase = "done"
    /\ mr.call.called
    /\ CachedEntry.kind = "absent"
    /\ mr.io.dbErr
    /\ mr.call.err
    /\ ~mr.err
    /\ backendResp.contentType = <<"audio/mpeg">>
    /\ resp = backendResp

\* The cache read of the call on record failed, found no entry, or gave a
\* value that is no profile.
CacheReadFailed ==
    \/ mr.io.cacheErr
    \/ CachedEntry.kind \in {"absent", "garbage"}

\* C9: a cache read that fails or gives no parseable profile is never
\* returned as an error: the Durable Store is queried and decides the result.
C9_CacheErrorIsMiss ==
    (phase = "done" /\ mr.call.called /\ CacheReadFailed) => DecidedByDb

\* C9 happens: the cache read fails with a connection error while a usable
\* profile is cached, and the Durable Store gives the name.
C9_Witness ==
    /\ phase = "done"
    /\ mr.call.called
    /\ mr.io.cacheErr
    /\ CachedEntry.kind = "json"
    /\ DbHasRow
    /\ ~mr.call.err
    /\ mr.call.name = db[mr.call.userID].audio_name

-----------------------------------------------------------------------------
(* The claim about the scrubbing of XML bodies, checked under SpecXml.      *)

ScrubbedTags ==
    {<<"<BucketName>", "</BucketName>">>, <<"<Resource>", "</Resource>">>,
     <<"<Key>", "</Key>">>}

\* Positions a..b of s are an element of tag t: an opening tag and the next
\* closing tag of its name.
IsElement(s, t, a, b) ==
    /\ a < b
    /\ s[a] = t[1]
    /\ s[b] = t[2]
    /\ \A j \in (a + 1)..(b - 1) : s[j] # t[2]

HasLineBreak(s, a, b) == \E j \in a..b : s[j] = "\n"

\* s without the positions that satisfy drop, the rest in order.
Without(s, drop(_)) ==
    LET keep == SelectSeq([i \in 1..Len(s) |-> i], LAMBDA i : ~drop(i))
    IN  [k \in 1..Len(keep) |-> s[keep[k]]]

\* The body with every element of the three tags removed.
AllElementsRemoved(s) ==
    LET in(i) == \E t \in ScrubbedTags : \E a \in 1..i :
                    s[a] = t[1] /\ \E b \in i..Len(s) : IsElement(s, t, a, b)
    IN  Without(s, in)

\* The body with every element of the three tags that holds no line break
\* removed.
LineElementsRemoved(s) ==
    LET in(i) == \E t \in ScrubbedTags : \E a \in 1..i :
                    s[a] = t[1] /\ \E b \in i..Len(s) :
                        IsElement(s, t, a, b) /\ ~HasLineBreak(s, a, b)
    IN  Without(s, in)

\* Two elements of different tags overlap without one holding the other.
PartlyOverlapping(s) ==
    \E t \in ScrubbedTags : \E a \in 1..Len(s) :
        /\ s[a] = t[1]
        /\ \E b \in (a + 1)..Len(s) :
              /\ IsElement(s, t, a, b)
              /\ \E u \in ScrubbedTags \ {t} : \E c \in (a + 1)..(b - 1) :
                    /\ s[c] = u[1]
                    /\ \E d \in (b + 1)..Len(s) : IsElement(s, u, c, d)

\* ModifyResponse ran on a response it took for XML and could read.
Scrubbed ==
    /\ phase = "done"
    /\ Contains(backendResp.contentType, "application/xml")
    /\ ~mr.err

LengthsMatchBody ==
    /\ resp.contentLength = ByteLen(resp.body)
    /\ resp.hdrContentLength = ByteLen(resp.body)

\* C6 as written: the body of an XML response has every <BucketName>,
\* <Resource> and <Key> element removed and its other bytes kept in order,
\* and Content-Length, header and field, is the length of that body.
C6_AsWritten ==
    Scrubbed => (resp.body = AllElementsRemoved(backendResp.body) /\ LengthsMatchBody)

\* C6 as amended: Content-Length, header and field, is the length of the
\* resulting body; no line break is ever removed; and when no two elements
\* partly overlap, exactly the elements that hold no line break are removed.
C6_ScrubSingleLine ==
    Scrubbed =>
        /\ LengthsMatchBody
        /\ SelectSeq(resp.body, LAMBDA x : x = "\n")
              = SelectSeq(backendResp.body, LAMBDA x : x = "\n")
        /\ ~PartlyOverlapping(backendResp.body) =>
              resp.body = LineElementsRemoved(backendResp.body)

\* C6 happens: x<Key>x</Key> becomes x with a length of 1.
C6_Witness ==
    /\ Scrubbed
    /\ backendResp.body = <<"x", "<Key>", "x", "</Key>">>
    /\ backendResp.contentLength = 13
    /\ resp.body = <<"x">>
    /\ resp.contentLength = 1
    /\ resp.hdrContentLength = 1

====
